---- MODULE Spec2Model ----
(***************************************************************************)
(* Breadth-first web crawler of crawler.py (class WebCrawler): the URL     *)
(* filter, link extraction, the frontier (visited_urls, found_links,       *)
(* url_queue, scraped_content) and the crawl_website loop.                 *)
(*                                                                         *)
(* A Python str is modelled as a sequence of one-character strings, so     *)
(* that startswith / endswith / `in` / lower / urlparse / urljoin are      *)
(* computed character by character as the code computes them.              *)
(***************************************************************************)
EXTENDS Integers, Sequences, FiniteSets, TLC

----------------------------------------------------------------------------
(* Python str primitives used by crawler.py                                *)

UpperChars == <<"A", "B", "C", "D", "E", "F", "G", "H", "I", "J", "K", "L", "M", "N", "O", "P", "Q", "R", "S", "T", "U", "V", "W", "X", "Y", "Z">>
LowerChars == <<"a", "b", "c", "d", "e", "f", "g", "h", "i", "j", "k", "l", "m", "n", "o", "p", "q", "r", "s", "t", "u", "v", "w", "x", "y", "z">>
DigitChars == <<"0", "1", "2", "3", "4", "5", "6", "7", "8", "9">>

Range(s) == { s[i] : i \in 1..Len(s) }

\* str.lower() on one character (ASCII letters)
LowerChar(c) ==
    IF \E i \in 1..Len(UpperChars) : UpperChars[i] = c
    THEN LowerChars[CHOOSE i \in 1..Len(UpperChars) : UpperChars[i] = c]
    ELSE c

\* url.lower()
lower(s) == [i \in 1..Len(s) |-> LowerChar(s[i])]

\* s.startswith(p)
startswith(s, p) == Len(p) <= Len(s) /\ SubSeq(s, 1, Len(p)) = p

\* s.endswith(p)
endswith(s, p) == Len(p) <= Len(s) /\ SubSeq(s, Len(s) - Len(p) + 1, Len(s)) = p

\* p in s
contains(s, p) == \E i \in 0..(Len(s) - Len(p)) : SubSeq(s, i + 1, i + Len(p)) = p

\* s.find(c) for a one-character c, 1-based; 0 when absent
find(s, c) ==
    IF \E i \in 1..Len(s) : s[i] = c
    THEN CHOOSE i \in 1..Len(s) : s[i] = c /\ \A j \in 1..(i - 1) : s[j] # c
    ELSE 0

\* s[i:] for a 1-based first index i
from(s, i) == SubSeq(s, i, Len(s))

\* s.split(c) for a one-character c
RECURSIVE split(_, _)
split(s, c) ==
    LET i == find(s, c)
    IN  IF i = 0 THEN << s >>
        ELSE << SubSeq(s, 1, i - 1) >> \o split(from(s, i + 1), c)

\* c.join(parts)
RECURSIVE join(_, _)
join(parts, c) ==
    IF parts = << >> THEN << >>
    ELSE IF Len(parts) = 1 THEN parts[1]
    ELSE parts[1] \o << c >> \o join(Tail(parts), c)

----------------------------------------------------------------------------
(* urllib.parse, as called at crawler.py:89 (urlparse) and crawler.py:121  *)
(* (urljoin).  Covered: URLs without whitespace, control characters and    *)
(* ';' parameters; a netloc holding both '[' and ']' (an IP literal, which *)
(* urlsplit validates further) is not covered.                             *)

scheme_chars == Range(UpperChars) \cup Range(LowerChars) \cup Range(DigitChars) \cup {"+", "-", "."}

uses_relative ==
    { << >>, <<"f", "t", "p">>, <<"h", "t", "t", "p">>, <<"g", "o", "p", "h", "e", "r">>, <<"n", "n", "t", "p">>, <<"i", "m", "a", "p">>, <<"w", "a", "i", "s">>, <<"f", "i", "l", "e">>, <<"h", "t", "t", "p", "s">>,
      <<"s", "h", "t", "t", "p">>, <<"m", "m", "s">>, <<"p", "r", "o", "s", "p", "e", "r", "o">>, <<"r", "t", "s", "p">>, <<"r", "t", "s", "p", "s">>, <<"r", "t", "s", "p", "u">>, <<"s", "f", "t", "p">>, <<"s", "v", "n">>,
      <<"s", "v", "n", "+", "s", "s", "h">>, <<"w", "s">>, <<"w", "s", "s">> }

uses_netloc ==
    { << >>, <<"f", "t", "p">>, <<"h", "t", "t", "p">>, <<"g", "o", "p", "h", "e", "r">>, <<"n", "n", "t", "p">>, <<"t", "e", "l", "n", "e", "t">>, <<"i", "m", "a", "p">>, <<"w", "a", "i", "s">>, <<"f", "i", "l", "e">>,
      <<"m", "m", "s">>, <<"h", "t", "t", "p", "s">>, <<"s", "h", "t", "t", "p">>, <<"s", "n", "e", "w", "s">>, <<"p", "r", "o", "s", "p", "e", "r", "o">>, <<"r", "t", "s", "p">>, <<"r", "t", "s", "p", "s">>, <<"r", "t", "s", "p", "u">>,
      <<"r", "s", "y", "n", "c">>, <<"s", "v", "n">>, <<"s", "v", "n", "+", "s", "s", "h">>, <<"s", "f", "t", "p">>, <<"n", "f", "s">>, <<"g", "i", "t">>, <<"g", "i", "t", "+", "s", "s", "h">>, <<"w", "s">>, <<"w", "s", "s">> }

\* _splitnetloc(url, 2): index of the first of '/', '?', '#' at or after the
\* third character, Len(url) + 1 when there is none
NetlocEnd(url) ==
    IF \E i \in 3..Len(url) : url[i] \in {"/", "?", "#"}
    THEN CHOOSE i \in 3..Len(url) :
            /\ url[i] \in {"/", "?", "#"}
            /\ \A j \in 3..(i - 1) : url[j] \notin {"/", "?", "#"}
    ELSE Len(url) + 1

\* urlsplit: whether url starts with a scheme, "<letter><scheme_chars>*:"
HasScheme(url) ==
    /\ find(url, ":") > 1
    /\ url[1] \in Range(UpperChars) \cup Range(LowerChars)
    /\ \A j \in 1..(find(url, ":") - 1) : url[j] \in scheme_chars

\* urlsplit: the scheme, and what follows it
SchemeOf(url, default_scheme) ==
    IF HasScheme(url) THEN lower(SubSeq(url, 1, find(url, ":") - 1)) ELSE default_scheme
AfterScheme(url) ==
    IF HasScheme(url) THEN from(url, find(url, ":") + 1) ELSE url

\* urlsplit: the netloc after "//", and what follows it
NetlocOf(rest) ==
    IF startswith(rest, << "/", "/" >>) THEN SubSeq(rest, 3, NetlocEnd(rest) - 1) ELSE << >>
AfterNetloc(rest) ==
    IF startswith(rest, << "/", "/" >>) THEN from(rest, NetlocEnd(rest)) ELSE rest

\* url.split('#', 1) and url.split('?', 1)
AfterChar(s, c) == IF find(s, c) > 0 THEN from(s, find(s, c) + 1) ELSE << >>
BeforeChar(s, c) == IF find(s, c) > 0 THEN SubSeq(s, 1, find(s, c) - 1) ELSE s

\* urlsplit(url, scheme): scheme, netloc, path, query, fragment
SplitResult(scheme, netloc, rest) ==
    [scheme   |-> scheme,
     netloc   |-> netloc,
     path     |-> BeforeChar(BeforeChar(rest, "#"), "?"),
     query    |-> AfterChar(BeforeChar(rest, "#"), "?"),
     fragment |-> AfterChar(rest, "#")]

\* the ValueError urlsplit raises, where a value is expected
ValueError == << "ValueError" >>

\* urlsplit: `if (('[' in netloc and ']' not in netloc) or (']' in netloc and
\* '[' not in netloc)): raise ValueError("Invalid IPv6 URL")`.  A netloc that
\* holds both brackets goes on to the check of the bracketed host, which is
\* not modelled: no URL of the environment has such a netloc.
netloc_raises(netloc) == ("[" \in Range(netloc)) # ("]" \in Range(netloc))

\* whether urlsplit(url) raises ValueError
urlsplit_raises(url) == netloc_raises(NetlocOf(AfterScheme(url)))

urlsplit(url, default_scheme) ==
    SplitResult(SchemeOf(url, default_scheme),
                NetlocOf(AfterScheme(url)),
                AfterNetloc(AfterScheme(url)))

\* urlunsplit: the "//netloc/path" part
WithNetloc(scheme, netloc, path) ==
    IF netloc # << >>
       \/ (scheme # << >> /\ scheme \in uses_netloc /\ ~startswith(path, << "/", "/" >>))
    THEN << "/", "/" >> \o netloc
           \o (IF path # << >> /\ path[1] # "/" THEN << "/" >> ELSE << >>)
           \o path
    ELSE path

\* urlunsplit((scheme, netloc, url, query, fragment))
urlunsplit(scheme, netloc, path, query, fragment) ==
    (IF scheme # << >> THEN scheme \o << ":" >> ELSE << >>)
      \o WithNetloc(scheme, netloc, path)
      \o (IF query # << >> THEN << "?" >> \o query ELSE << >>)
      \o (IF fragment # << >> THEN << "#" >> \o fragment ELSE << >>)

\* segments[1:-1] = filter(None, segments[1:-1])
DropInnerEmpty(segments) ==
    IF Len(segments) < 2 THEN segments
    ELSE << segments[1] >>
           \o SelectSeq(SubSeq(segments, 2, Len(segments) - 1), LAMBDA x : x # << >>)
           \o << segments[Len(segments)] >>

\* the loop of urljoin over the segments: '.' is dropped, '..' pops
RECURSIVE ResolveDots(_, _)
ResolveDots(segments, resolved) ==
    IF segments = << >> THEN resolved
    ELSE LET seg == Head(segments)
         IN  IF seg = << ".", "." >>
             THEN ResolveDots(Tail(segments),
                              IF resolved = << >> THEN resolved
                              ELSE SubSeq(resolved, 1, Len(resolved) - 1))
             ELSE IF seg = << "." >>
             THEN ResolveDots(Tail(segments), resolved)
             ELSE ResolveDots(Tail(segments), Append(resolved, seg))

\* urljoin: base_parts, the directory of the base path
BaseParts(bpath) ==
    LET parts == split(bpath, "/")
    IN  IF parts[Len(parts)] # << >> THEN SubSeq(parts, 1, Len(parts) - 1) ELSE parts

\* urljoin: segments
Segments(bpath, path) ==
    IF path[1] = "/" THEN split(path, "/")
    ELSE DropInnerEmpty(BaseParts(bpath) \o split(path, "/"))

\* urljoin: resolved_path, with the trailing '' after a final '.' or '..'
ResolvedPath(segments) ==
    IF segments[Len(segments)] \in { << "." >>, << ".", "." >> }
    THEN Append(ResolveDots(segments, << >>), << >>)
    ELSE ResolveDots(segments, << >>)

\* '/'.join(resolved_path) or '/'
OrSlash(joined) == IF joined = << >> THEN << "/" >> ELSE joined

\* urljoin, once base and url are parsed into b and u
JoinParsed(b, u, url) ==
    IF u.scheme # b.scheme \/ u.scheme \notin uses_relative THEN url
    ELSE IF u.scheme \in uses_netloc /\ u.netloc # << >>
    THEN urlunsplit(u.scheme, u.netloc, u.path, u.query, u.fragment)
    ELSE IF u.path = << >>
    THEN urlunsplit(u.scheme,
                    IF u.scheme \in uses_netloc THEN b.netloc ELSE u.netloc,
                    b.path,
                    IF u.query = << >> THEN b.query ELSE u.query,
                    u.fragment)
    ELSE urlunsplit(u.scheme,
                    IF u.scheme \in uses_netloc THEN b.netloc ELSE u.netloc,
                    OrSlash(join(ResolvedPath(Segments(b.path, u.path)), "/")),
                    u.query, u.fragment)

\* whether urljoin(base, url) raises ValueError: it parses base, then url
urljoin_raises(base, url) ==
    /\ base # << >>
    /\ url # << >>
    /\ (urlsplit_raises(base) \/ urlsplit_raises(url))

\* urljoin(base, url), when it does not raise
urljoin(base, url) ==
    IF base = << >> THEN url
    ELSE IF url = << >> THEN base
    ELSE JoinParsed(urlsplit(base, << >>),
                    urlsplit(url, urlsplit(base, << >>).scheme),
                    url)

----------------------------------------------------------------------------
(* crawler.py: configuration lists                                         *)

EXCLUDED_EXTENSIONS ==
    << <<".", "p", "d", "f">>, <<".", "d", "o", "c">>, <<".", "d", "o", "c", "x">>, <<".", "x", "l", "s">>, <<".", "x", "l", "s", "x">>, <<".", "p", "p", "t">>, <<".", "p", "p", "t", "x">>, <<".", "z", "i", "p">>,
       <<".", "r", "a", "r">>, <<".", "t", "a", "r">>, <<".", "g", "z">>, <<".", "e", "x", "e">>, <<".", "d", "m", "g">>, <<".", "p", "k", "g">>, <<".", "j", "p", "g">>, <<".", "j", "p", "e", "g">>,
       <<".", "p", "n", "g">>, <<".", "g", "i", "f">>, <<".", "b", "m", "p">>, <<".", "s", "v", "g">>, <<".", "i", "c", "o">>, <<".", "m", "p", "3">>, <<".", "m", "p", "4">>, <<".", "a", "v", "i">>,
       <<".", "m", "o", "v">>, <<".", "w", "m", "v">>, <<".", "f", "l", "v">>, <<".", "w", "e", "b", "m">>, <<".", "c", "s", "s">>, <<".", "j", "s">>, <<".", "x", "m", "l">>, <<".", "j", "s", "o", "n">> >>

EXCLUDED_URL_KEYWORDS ==
    << <<"l", "o", "g", "o", "u", "t">>, <<"l", "o", "g", "i", "n">>, <<"s", "i", "g", "n", "i", "n">>, <<"s", "i", "g", "n", "u", "p">>, <<"r", "e", "g", "i", "s", "t", "e", "r">>, <<"a", "d", "m", "i", "n">>,
       <<"d", "a", "s", "h", "b", "o", "a", "r", "d">>, <<"p", "r", "o", "f", "i", "l", "e">>, <<"s", "e", "t", "t", "i", "n", "g", "s">>, <<"c", "a", "r", "t">>, <<"c", "h", "e", "c", "k", "o", "u", "t">>, <<"p", "a", "y", "m", "e", "n", "t">>,
       <<"b", "i", "l", "l", "i", "n", "g">>, <<"d", "o", "w", "n", "l", "o", "a", "d">>, <<"u", "p", "l", "o", "a", "d">>, <<"a", "p", "i">>, <<"f", "e", "e", "d">> >>

\* WebCrawler.get_domain: urlparse(url).netloc, or the ValueError of urlparse
get_domain(url) ==
    IF urlsplit_raises(url) THEN ValueError ELSE urlsplit(url, << >>).netloc

\* the early returns of is_valid_url: the empty and prefix tests, the
\* extensions and the keywords
RejectedEarly(url) ==
    \/ url = << >>
    \/ startswith(url, <<"#">>)
    \/ startswith(url, <<"m", "a", "i", "l", "t", "o", ":">>)
    \/ startswith(url, <<"t", "e", "l", ":">>)
    \/ \E i \in 1..Len(EXCLUDED_EXTENSIONS) : endswith(lower(url), EXCLUDED_EXTENSIONS[i])
    \/ \E i \in 1..Len(EXCLUDED_URL_KEYWORDS) : contains(lower(url), EXCLUDED_URL_KEYWORDS[i])

\* whether WebCrawler.is_valid_url raises: no early return applies,
\* same_domain_only is set, and self.get_domain(url) raises
is_valid_url_raises(self, url, base_domain) ==
    /\ ~RejectedEarly(url)
    /\ self.same_domain_only
    /\ urlsplit_raises(url)

\* is_valid_url with the same-domain check left out
Mutant_is_valid_url_any_domain(self, url, base_domain) ==
    /\ ~(url = << >> \/ startswith(url, <<"#">>) \/ startswith(url, <<"m", "a", "i", "l", "t", "o", ":">>)
          \/ startswith(url, <<"t", "e", "l", ":">>))
    /\ ~\E i \in 1..Len(EXCLUDED_EXTENSIONS) : endswith(lower(url), EXCLUDED_EXTENSIONS[i])
    /\ ~\E i \in 1..Len(EXCLUDED_URL_KEYWORDS) : contains(lower(url), EXCLUDED_URL_KEYWORDS[i])

\* is_valid_url matching the keywords against url instead of url.lower()
Mutant_is_valid_url_case_sensitive(self, url, base_domain) ==
    /\ ~(url = << >> \/ startswith(url, <<"#">>) \/ startswith(url, <<"m", "a", "i", "l", "t", "o", ":">>)
          \/ startswith(url, <<"t", "e", "l", ":">>))
    /\ ~\E i \in 1..Len(EXCLUDED_EXTENSIONS) : endswith(lower(url), EXCLUDED_EXTENSIONS[i])
    /\ ~\E i \in 1..Len(EXCLUDED_URL_KEYWORDS) : contains(url, EXCLUDED_URL_KEYWORDS[i])
    /\ (self.same_domain_only => get_domain(url) = base_domain)

\* WebCrawler.is_valid_url; self is the crawler's configuration.  The result
\* is TRUE, FALSE, or ValueError when get_domain(url) raises
is_valid_url(self, url, base_domain) ==
    IF \/ url = << >>
       \/ startswith(url, <<"#">>)
       \/ startswith(url, <<"m", "a", "i", "l", "t", "o", ":">>)
       \/ startswith(url, <<"t", "e", "l", ":">>)
    THEN FALSE
    ELSE LET url_lower == lower(url)
         IN  IF \E i \in 1..Len(EXCLUDED_EXTENSIONS) :
                    endswith(url_lower, EXCLUDED_EXTENSIONS[i])
             THEN FALSE
             ELSE IF \E i \in 1..Len(EXCLUDED_URL_KEYWORDS) :
                        contains(url_lower, EXCLUDED_URL_KEYWORDS[i])
             THEN FALSE
             ELSE IF self.same_domain_only
             THEN IF urlsplit_raises(url) THEN ValueError
                  ELSE get_domain(url) = base_domain
             ELSE TRUE

----------------------------------------------------------------------------
(* The environment: seed URLs, and the pages the fetcher can return.  A    *)
(* page's markup is the sequence of the href values of its anchors, in     *)
(* document order; the empty string (a failed page load) is EmptyMarkup    *)
(* and the None of scrape_single_page is NoneMarkup.                       *)

MaxPagesBound == 4

StartUrls == { <<"h", "t", "t", "p", ":", "/", "/", "a", ".", "i", "o", "/">> }

\* seeds that urlparse accepts, whatever the filter says of them: the seed
\* above, one with an excluded extension and one with an excluded keyword
SeedUrls ==
    StartUrls \cup { <<"h", "t", "t", "p", ":", "/", "/", "a", ".", "i", "o", "/", "r", ".", "P", "D", "F">>,
                     <<"h", "t", "t", "p", ":", "/", "/", "a", ".", "i", "o", "/", "A", "P", "I", "/", "v", "1">> }

\* URLs whose netloc holds one bracket, which urlparse refuses
MalformedUrls == { <<"/", "/", "[">>, <<"h", "t", "t", "p", ":", "/", "/", "[", "/", "x">> }

\* any seed a caller can pass to crawl_website: those above, and the ones
\* urlparse refuses
AnySeedUrls == SeedUrls \cup MalformedUrls

\* the pages the site serves, each as the href values of its anchors: links to
\* /b and c; a cross-domain link and /b twice; links the filter rejects
\* beside one it accepts; a link with a port, an empty href and a tel: link;
\* a link to /b followed by an href whose host opens a bracket it never closes
AnchorLists ==
    { << >>,
      << <<"/", "b">>, <<"c">> >>,
      << <<"/", "/", "x", ".", "i", "o", "/", "d">>, <<"/", "b">>, <<"b">> >>,
      << <<"/", "A", "P", "I", "/", "v", "1">>, <<"/", "r", ".", "P", "D", "F">>, <<"m", "a", "i", "l", "t", "o", ":", "m", "@", "a", ".", "i", "o">>, <<"c">> >>,
      << <<"h", "t", "t", "p", ":", "/", "/", "a", ".", "i", "o", ":", "8", "0", "/", "p">>, <<>>, <<"t", "e", "l", ":", "1", "2", "3">> >>,
      << <<"/", "b">>, <<"/", "/", "[">> >> }

Html(anchors) == [kind |-> "html", anchors |-> anchors]
EmptyMarkup == [kind |-> "empty", anchors |-> << >>]
NoneMarkup == [kind |-> "none", anchors |-> << >>]

AllHrefs == UNION { Range(a) : a \in AnchorLists }

\* the URLs one more fetch can add: urljoin of a page that can be fetched (a
\* seed, or a URL the filter lets through) with the hrefs
Expand(U) ==
    U \cup { urljoin(pair[1], pair[2]) :
               pair \in { q \in { p \in U : \/ p \in SeedUrls
                                             \/ is_valid_url([same_domain_only |-> FALSE], p, << >>) }
                                 \X AllHrefs :
                           ~urljoin_raises(q[1], q[2]) } }

\* every URL the crawl can meet: the seeds closed under Expand (a page of the
\* site is at most three links away from a seed)
UrlUniverse == Expand(Expand(Expand(SeedUrls)))

Domains == { get_domain(u) : u \in UrlUniverse }

\* get_domain, urljoin and is_valid_url over the universe, computed once
get_domain_table == [u \in UrlUniverse |-> get_domain(u)]

urljoin_table ==
    [b \in UrlUniverse, h \in AllHrefs |->
        IF urljoin_raises(b, h) THEN ValueError ELSE urljoin(b, h)]

is_valid_url_table ==
    [s \in BOOLEAN, u \in UrlUniverse, d \in Domains |->
        is_valid_url([same_domain_only |-> s], u, d)]

is_valid_url_raises_table ==
    [s \in BOOLEAN, u \in UrlUniverse, d \in Domains |->
        is_valid_url_raises([same_domain_only |-> s], u, d)]

\* whether WebCrawler.extract_links raises: urljoin raises on one of the
\* hrefs, or is_valid_url raises on a resolved one, and nothing catches it
extract_links_raises(self, html_content, base_url) ==
    \E href \in Range(html_content.anchors) :
        IF urljoin_table[base_url, href] = ValueError THEN TRUE
        ELSE is_valid_url_raises_table[self.same_domain_only, urljoin_table[base_url, href],
                                       get_domain_table[base_url]]

\* extract_links with the filter applied as if same_domain_only were off
Mutant_extract_links_any_domain(self, html_content, base_url) ==
    { absolute_url \in { urljoin_table[base_url, href] : href \in Range(html_content.anchors) } :
        is_valid_url_table[FALSE, absolute_url, get_domain_table[base_url]] }

\* extract_links without the call of is_valid_url: every resolved href
Mutant_extract_links_unfiltered(self, html_content, base_url) ==
    { urljoin_table[base_url, href] : href \in Range(html_content.anchors) }

\* WebCrawler.extract_links when it returns, as a set: list(links) puts it in an arbitrary order
extract_links(self, html_content, base_url) ==
    LET base_domain == get_domain_table[base_url]
    IN  { absolute_url \in { urljoin_table[base_url, href] : href \in Range(html_content.anchors) } :
            is_valid_url_table[self.same_domain_only, absolute_url, base_domain] }

\* the orders list(links) can come out in
Orderings(S) ==
    { q \in [1..Cardinality(S) -> S] : \A i, j \in 1..Cardinality(S) : i # j => q[i] # q[j] }

----------------------------------------------------------------------------
(* The crawler object and one crawl_website session                        *)

VARIABLES
    max_pages,          \* self.max_pages
    delay,              \* self.delay
    same_domain_only,   \* self.same_domain_only
    progress_callback,  \* whether self.progress_callback is set
    visited_urls,       \* self.visited_urls: set
    scraped_content,    \* self.scraped_content: dict, as its (key, value) items in insertion order
    url_queue,          \* self.url_queue: deque
    found_links,        \* self.found_links: set
    pc,                 \* where crawl_website is: idle, loop, fetch, sleep, done, raised
    start_url,          \* crawl_website's argument
    current_url,        \* crawl_website's local current_url
    events,             \* the progress_data dicts handed to progress_callback, in order
    fetch_log,          \* history: the scrape_single_page calls and what each returned
    enqueue_log,        \* history: the URLs put into url_queue, in order
    calls,              \* history: how many times crawl_website was called on the object
    suspended,          \* the other calls of crawl_website on the object that wait at an
                        \* await: each one's position and locals
    fetcher             \* one call of scrape_website_playwright: where it is, its url,
                        \* its browser, its local content

vars == << max_pages, delay, same_domain_only, progress_callback, visited_urls,
           scraped_content, url_queue, found_links, pc, start_url, current_url,
           events, fetch_log, enqueue_log, calls, suspended, fetcher >>

config == << max_pages, delay, same_domain_only, progress_callback >>

DelayChoices == { 0, 2 }

\* Python None, where a str is expected
None == << "None" >>

\* the keys of self.scraped_content
Keys(content) == { content[i].url : i \in 1..Len(content) }

\* self.scraped_content[current_url] = html_content
DictSet(content, url, html) ==
    IF url \in Keys(content)
    THEN [i \in 1..Len(content) |->
            IF content[i].url = url THEN [url |-> url, html |-> html] ELSE content[i]]
    ELSE Append(content, [url |-> url, html |-> html])

\* a variant of the percentage that leaves out the scaling by 100
Mutant_progress_percentage_unscaled(visited, maxp) ==
    [num |-> Cardinality(visited), den |-> maxp]

\* min((len(self.visited_urls) / self.max_pages) * 100, 100), as a fraction
progress_percentage(visited, maxp) ==
    IF maxp > 0 /\ Cardinality(visited) >= maxp THEN [num |-> 100, den |-> 1]
    ELSE [num |-> 100 * Cardinality(visited), den |-> maxp]

\* WebCrawler.update_progress raises ZeroDivisionError: a callback is set and
\* len(self.visited_urls) / self.max_pages divides by 0
update_progress_raises == progress_callback /\ max_pages = 0

\* WebCrawler.update_progress when it returns: the events after the call
update_progress(evs, message, url, links_found, visited, queue, found) ==
    IF progress_callback
    THEN Append(evs, [message               |-> message,
                      current_url           |-> url,
                      visited_count         |-> Cardinality(visited),
                      queue_size            |-> Len(queue),
                      total_links_found     |-> Cardinality(found),
                      links_on_current_page |-> links_found,
                      max_pages             |-> max_pages,
                      progress_percentage   |-> progress_percentage(visited, max_pages)])
    ELSE evs

\* the messages of crawl_website
MsgStart == [text |-> "Starting crawl...", args |-> << >>]
MsgScraping == [text |-> "Scraping page...", args |-> << >>]
MsgFound(n) == [text |-> "Found {new_links_count} new links", args |-> << n >>]
MsgFailed == [text |-> "Failed to scrape", args |-> << >>]
MsgFinal(pages, links) ==
    [text |-> "Crawling completed! Scraped {} pages, found {} total links",
     args |-> << pages, links >>]

\* scrape_website_playwright not called: no url, no browser, content unbound
FetcherIdle ==
    [pc |-> "idle", url |-> None, browser |-> "none",
     content |-> [kind |-> "unbound", anchors |-> << >>]]

Init ==
    /\ max_pages \in 1..MaxPagesBound
    /\ delay \in DelayChoices
    /\ same_domain_only \in BOOLEAN
    /\ progress_callback \in BOOLEAN
    /\ visited_urls = {}
    /\ scraped_content = << >>
    /\ url_queue = << >>
    /\ found_links = {}
    /\ pc = "idle"
    /\ start_url = None
    /\ current_url = None
    /\ events = << >>
    /\ fetch_log = << >>
    /\ enqueue_log = << >>
    /\ calls = 0
    /\ suspended = << >>
    /\ fetcher = FetcherIdle

\* crawl_website, up to the loop.  Neither the ValueError of
\* self.get_domain(start_url), raised after the queue is set and before
\* found_links.add, nor the ZeroDivisionError of update_progress is caught
CrawlStartFrom(seeds) ==
    /\ pc = "idle"
    /\ \E url \in seeds :
        /\ start_url' = url
        /\ url_queue' = << url >>
        /\ enqueue_log' = Append(enqueue_log, url)
        /\ IF urlsplit_raises(url)
           THEN /\ pc' = "raised"
                /\ UNCHANGED << found_links, events >>
           ELSE /\ found_links' = found_links \cup { url }
                /\ events' = IF update_progress_raises THEN events
                              ELSE update_progress(events, MsgStart, url, 0,
                                                   visited_urls, url_queue', found_links')
                /\ pc' = IF update_progress_raises THEN "raised" ELSE "loop"
    /\ calls' = calls + 1
    /\ UNCHANGED << config, suspended, fetcher, visited_urls, scraped_content, current_url, fetch_log >>

\* crawl_website called with a seed the filter accepts
CrawlStart == CrawlStartFrom(StartUrls)

\* the loop condition without the page budget
Mutant_LoopCond_no_budget == url_queue # << >>

\* the loop condition without the test of the queue
Mutant_LoopCond_no_queue_test == Cardinality(visited_urls) < max_pages

\* while self.url_queue and len(self.visited_urls) < self.max_pages
LoopCond == url_queue # << >> /\ Cardinality(visited_urls) < max_pages

\* reading the head of the deque without removing it
Mutant_popleft_peek(queue) == queue

\* deque.popleft(): what is left
popleft(queue) == Tail(queue)

\* one pass of the loop up to the fetch: popleft, the visited check, the event
LoopPop ==
    /\ pc = "loop"
    /\ LoopCond
    /\ IF url_queue = << >>
       THEN \* popleft of an empty deque raises IndexError out of crawl_website
            /\ pc' = "raised"
            /\ UNCHANGED << url_queue, current_url, events >>
       ELSE /\ current_url' = Head(url_queue)
            /\ url_queue' = popleft(url_queue)
            /\ IF current_url' \in visited_urls
               THEN /\ pc' = "loop"
                    /\ UNCHANGED events
               ELSE /\ pc' = "fetch"
                    /\ events' = update_progress(events, MsgScraping, current_url', 0,
                                                 visited_urls, url_queue', found_links)
    /\ UNCHANGED << config, calls, suspended, fetcher, visited_urls, scraped_content, found_links, start_url,
                    fetch_log, enqueue_log >>

\* what scrape_single_page can return: the page, "" (scrape_website_playwright
\* caught a failed load) or None (scrape_single_page caught an exception)
FetchResults == { Html(a) : a \in AnchorLists } \cup { EmptyMarkup, NoneMarkup }

\* `if html_content is not None:` in place of `if html_content:`
Mutant_Truthy_is_not_none(html_content) == html_content.kind # "none"

\* if html_content:
Truthy(html_content) == html_content.kind = "html"

\* scraped_content rebuilt from the current page alone
Mutant_MarkVisited_reset(st, url, html) ==
    [st EXCEPT !.visited = st.visited \cup { url },
               !.content = << [url |-> url, html |-> html] >>]

\* the URL is marked visited and its content is not stored
Mutant_MarkVisited_no_content(st, url, html) ==
    [st EXCEPT !.visited = st.visited \cup { url }]

\* self.visited_urls.add(current_url); self.scraped_content[current_url] = html_content
MarkVisited(st, url, html) ==
    [st EXCEPT !.visited = st.visited \cup { url },
               !.content = DictSet(st.content, url, html)]

\* appendleft in place of append
Mutant_offer_appendleft(st, link) ==
    IF link \notin st.found
    THEN [st EXCEPT !.found = st.found \cup { link },
                    !.count = st.count + 1,
                    !.queue = IF link \notin st.visited /\ link \notin Range(st.queue)
                              THEN << link >> \o st.queue ELSE st.queue,
                    !.appended = IF link \notin st.visited /\ link \notin Range(st.queue)
                                 THEN Append(st.appended, link) ELSE st.appended]
    ELSE st

\* the link is queued but found_links.add(link) is left out
Mutant_offer_unrecorded(st, link) ==
    IF link \notin st.found /\ link \notin st.visited /\ link \notin Range(st.queue)
    THEN [st EXCEPT !.count = st.count + 1,
                    !.queue = Append(st.queue, link),
                    !.appended = Append(st.appended, link)]
    ELSE st

\* the test `link not in self.found_links` is left out
Mutant_offer_always(st, link) ==
    [st EXCEPT !.found = st.found \cup { link },
               !.count = st.count + 1,
               !.queue = IF link \notin st.visited /\ link \notin Range(st.queue)
                         THEN Append(st.queue, link) ELSE st.queue,
               !.appended = IF link \notin st.visited /\ link \notin Range(st.queue)
                            THEN Append(st.appended, link) ELSE st.appended]

\* the two tests of the loop body side by side instead of nested: the queue
\* test no longer depends on the link being new to found_links
Mutant_offer_unnested(st, link) ==
    [st EXCEPT !.found = st.found \cup { link },
               !.count = IF link \notin st.found THEN st.count + 1 ELSE st.count,
               !.queue = IF link \notin st.visited /\ link \notin Range(st.queue)
                         THEN Append(st.queue, link) ELSE st.queue,
               !.appended = IF link \notin st.visited /\ link \notin Range(st.queue)
                            THEN Append(st.appended, link) ELSE st.appended]

\* `link not in self.visited_urls` tested in place of
\* `link not in self.found_links`
Mutant_offer_unless_visited(st, link) ==
    IF link \notin st.visited
    THEN [st EXCEPT !.found = st.found \cup { link },
                    !.count = st.count + 1,
                    !.queue = IF link \notin Range(st.queue)
                              THEN Append(st.queue, link) ELSE st.queue,
                    !.appended = IF link \notin Range(st.queue)
                                 THEN Append(st.appended, link) ELSE st.appended]
    ELSE st

\* the body of `for link in page_links`
offer(st, link) ==
    IF link \notin st.found
    THEN [st EXCEPT !.found = st.found \cup { link },
                    !.count = st.count + 1,
                    !.queue = IF link \notin st.visited /\ link \notin Range(st.queue)
                              THEN Append(st.queue, link) ELSE st.queue,
                    !.appended = IF link \notin st.visited /\ link \notin Range(st.queue)
                                 THEN Append(st.appended, link) ELSE st.appended]
    ELSE st

\* for link in page_links: ...
RECURSIVE OfferLinks(_, _)
OfferLinks(st, page_links) ==
    IF page_links = << >> THEN st
    ELSE OfferLinks(offer(st, Head(page_links)), Tail(page_links))

\* the sleep entered whatever the delay
Mutant_Pace_always(d) == "sleep"

\* if self.delay > 0: await asyncio.sleep(self.delay)
Pace(d) == IF d > 0 THEN "sleep" ELSE "loop"

\* the fetch returned a page: the `if html_content:` branch, up to the sleep
FetchSuccess ==
    /\ pc = "fetch"
    /\ \E html_content \in FetchResults :
        /\ Truthy(html_content)
        /\ ~extract_links_raises([same_domain_only |-> same_domain_only],
                                html_content, current_url)
        /\ \E page_links \in Orderings(extract_links([same_domain_only |-> same_domain_only],
                                                     html_content, current_url)) :
            LET st0 == [visited |-> visited_urls, content |-> scraped_content,
                        found |-> found_links, queue |-> url_queue,
                        count |-> 0, appended |-> << >>]
                st  == OfferLinks(MarkVisited(st0, current_url, html_content), page_links)
            IN  /\ visited_urls' = st.visited
                /\ scraped_content' = st.content
                /\ found_links' = st.found
                /\ url_queue' = st.queue
                /\ enqueue_log' = enqueue_log \o st.appended
                /\ events' = update_progress(events, MsgFound(st.count), current_url,
                                             Len(page_links), st.visited, st.queue, st.found)
                /\ fetch_log' = Append(fetch_log, [url |-> current_url, result |-> html_content.kind])
    /\ pc' = Pace(delay)
    /\ UNCHANGED << config, calls, suspended, fetcher, start_url, current_url >>

\* the fetch returned a page and extract_links raised on it: the page is
\* already marked visited and stored, and the ValueError leaves crawl_website
ExtractFailure ==
    /\ pc = "fetch"
    /\ \E html_content \in FetchResults :
        /\ Truthy(html_content)
        /\ extract_links_raises([same_domain_only |-> same_domain_only],
                                html_content, current_url)
        /\ LET st0 == [visited |-> visited_urls, content |-> scraped_content,
                       found |-> found_links, queue |-> url_queue,
                       count |-> 0, appended |-> << >>]
               st  == MarkVisited(st0, current_url, html_content)
           IN  /\ visited_urls' = st.visited
               /\ scraped_content' = st.content
        /\ fetch_log' = Append(fetch_log, [url |-> current_url, result |-> html_content.kind])
    /\ pc' = "raised"
    /\ UNCHANGED << config, calls, suspended, fetcher, url_queue, found_links, start_url, current_url,
                    events, enqueue_log >>

\* the fetch returned "" or None: the else branch
FetchFailure ==
    /\ pc = "fetch"
    /\ \E html_content \in FetchResults :
        /\ ~Truthy(html_content)
        /\ fetch_log' = Append(fetch_log, [url |-> current_url, result |-> html_content.kind])
    /\ events' = update_progress(events, MsgFailed, current_url, 0,
                                 visited_urls, url_queue, found_links)
    /\ pc' = "loop"
    /\ UNCHANGED << config, calls, suspended, fetcher, visited_urls, scraped_content, url_queue, found_links,
                    start_url, current_url, enqueue_log >>

\* await asyncio.sleep(self.delay)
Sleep ==
    /\ pc = "sleep"
    /\ pc' = "loop"
    /\ UNCHANGED << config, calls, suspended, fetcher, visited_urls, scraped_content, url_queue, found_links,
                    start_url, current_url, events, fetch_log, enqueue_log >>

\* the loop condition is false: the final event, return self.scraped_content
LoopExit ==
    /\ pc = "loop"
    /\ ~LoopCond
    /\ events' = update_progress(events,
                                 MsgFinal(Cardinality(visited_urls), Cardinality(found_links)),
                                 None, 0, visited_urls, url_queue, found_links)
    /\ pc' = "done"
    /\ UNCHANGED << config, calls, suspended, fetcher, visited_urls, scraped_content, url_queue, found_links,
                    start_url, current_url, fetch_log, enqueue_log >>

Next ==
    \/ CrawlStart
    \/ LoopPop
    \/ FetchSuccess
    \/ ExtractFailure
    \/ FetchFailure
    \/ Sleep
    \/ LoopExit

Spec == Init /\ [][Next]_vars

\* the steps of a running crawl: the event loop runs crawl_website on, each
\* fetch returns and each sleep ends
CrawlStep == LoopPop \/ FetchSuccess \/ ExtractFailure \/ FetchFailure \/ Sleep \/ LoopExit

LiveSpec == Init /\ [][Next]_vars /\ WF_vars(CrawlStep)

\* crawl_website called with any seed, the ones the filter rejects and the
\* ones urlparse refuses included
CrawlStartAnySeed == CrawlStartFrom(AnySeedUrls)

SeedNext ==
    \/ CrawlStartAnySeed
    \/ LoopPop
    \/ FetchSuccess
    \/ ExtractFailure
    \/ FetchFailure
    \/ Sleep
    \/ LoopExit

\* a session on a fresh crawler started from any seed
SeedSpec == Init /\ [][SeedNext]_vars

\* Any WebCrawler object: the constructor checks nothing, so max_pages can be
\* any integer, and crawl_website can be called again on the same object.
MaxSessions == 2

ObjectMaxPages == { -1, 0, 1, 2 }

ObjectInit ==
    /\ max_pages \in ObjectMaxPages
    /\ delay \in DelayChoices
    /\ same_domain_only \in BOOLEAN
    /\ progress_callback \in BOOLEAN
    /\ visited_urls = {}
    /\ scraped_content = << >>
    /\ url_queue = << >>
    /\ found_links = {}
    /\ pc = "idle"
    /\ start_url = None
    /\ current_url = None
    /\ events = << >>
    /\ fetch_log = << >>
    /\ enqueue_log = << >>
    /\ calls = 0
    /\ suspended = << >>
    /\ fetcher = FetcherIdle

\* crawl_website has returned or raised and the caller is about to call it
\* again on the same object: nothing of the object is reset
CrawlAgain ==
    /\ pc \in { "done", "raised" }
    /\ calls < MaxSessions
    /\ pc' = "idle"
    /\ UNCHANGED << config, calls, suspended, fetcher, visited_urls, scraped_content, url_queue, found_links,
                    start_url, current_url, events, fetch_log, enqueue_log >>

\* the places where crawl_website awaits: scrape_single_page and asyncio.sleep
AwaitPoints == { "fetch", "sleep" }

\* the position and the locals of the running call
Frame == [pc |-> pc, start_url |-> start_url, current_url |-> current_url]

\* s without its i-th element
RemoveAt(s, i) == SubSeq(s, 1, i - 1) \o SubSeq(s, i + 1, Len(s))

\* while the running call waits at an await, crawl_website is about to be
\* called on the same object by another task: the waiting call is set aside
CrawlConcurrently ==
    /\ pc \in AwaitPoints
    /\ calls < MaxSessions
    /\ suspended' = Append(suspended, Frame)
    /\ pc' = "idle"
    /\ UNCHANGED << config, calls, fetcher, visited_urls, scraped_content, url_queue, found_links,
                    start_url, current_url, events, fetch_log, enqueue_log >>

\* the event loop goes on with another call: the running call waits at an
\* await and changes places with a waiting one, or it has ended
Resume ==
    /\ pc \in AwaitPoints \cup { "done", "raised" }
    /\ \E i \in 1..Len(suspended) :
        /\ pc' = suspended[i].pc
        /\ start_url' = suspended[i].start_url
        /\ current_url' = suspended[i].current_url
        /\ suspended' = IF pc \in AwaitPoints
                         THEN [suspended EXCEPT ![i] = Frame]
                         ELSE RemoveAt(suspended, i)
    /\ UNCHANGED << config, calls, fetcher, visited_urls, scraped_content, url_queue, found_links,
                    events, fetch_log, enqueue_log >>

\* calls of crawl_website on one object, each awaited before the next is made
SerialNext == Next \/ CrawlAgain

SerialSpec == ObjectInit /\ [][SerialNext]_vars

\* calls of crawl_website on one object, one after another or overlapping
ObjectNext == Next \/ CrawlAgain \/ CrawlConcurrently \/ Resume

----------------------------------------------------------------------------
(* scrape_playwright.py: one call of scrape_website_playwright, a step per *)
(* await, the __aenter__ and __aexit__ of `async with async_playwright()`  *)
(* included.  Each awaited Playwright call either returns or raises.  An   *)
(* exception raised in the body of the `async with` is handed to __aexit__ *)
(* and leaves the function after it: Playwright's __aexit__ stops the      *)
(* driver and suppresses nothing.  What scrape_single_page makes of the    *)
(* call is FetchResults: the content returned, or None when the call       *)
(* raised.                                                                 *)

\* the crawler is as constructed by default and is left alone
FetcherInit ==
    /\ max_pages = 10
    /\ delay = 2
    /\ same_domain_only = TRUE
    /\ progress_callback = FALSE
    /\ visited_urls = {}
    /\ scraped_content = << >>
    /\ url_queue = << >>
    /\ found_links = {}
    /\ pc = "idle"
    /\ start_url = None
    /\ current_url = None
    /\ events = << >>
    /\ fetch_log = << >>
    /\ enqueue_log = << >>
    /\ calls = 0
    /\ suspended = << >>
    /\ fetcher = FetcherIdle

CrawlerVars ==
    << config, visited_urls, scraped_content, url_queue, found_links, pc, start_url,
       current_url, events, fetch_log, enqueue_log, calls, suspended >>

\* scrape_website_playwright(url) is called and awaits the __aenter__ of
\* async_playwright()
FetcherCall ==
    /\ fetcher.pc = "idle"
    /\ \E url \in UrlUniverse : fetcher' = [fetcher EXCEPT !.pc = "enter", !.url = url]
    /\ UNCHANGED CrawlerVars

\* `async with async_playwright() as p`: __aenter__ returns p, or raises and
\* the body is never entered
FetcherEnter ==
    /\ fetcher.pc = "enter"
    /\ \/ fetcher' = [fetcher EXCEPT !.pc = "launch"]
       \/ fetcher' = [fetcher EXCEPT !.pc = "raised"]
    /\ UNCHANGED CrawlerVars

\* browser = await p.chromium.launch(headless=True), outside the try
FetcherLaunch ==
    /\ fetcher.pc = "launch"
    /\ \/ fetcher' = [fetcher EXCEPT !.pc = "new_page", !.browser = "open"]
       \/ fetcher' = [fetcher EXCEPT !.pc = "exit_raising"]
    /\ UNCHANGED CrawlerVars

\* page = await browser.new_page(), outside the try
FetcherNewPage ==
    /\ fetcher.pc = "new_page"
    /\ \/ fetcher' = [fetcher EXCEPT !.pc = "goto"]
       \/ fetcher' = [fetcher EXCEPT !.pc = "exit_raising"]
    /\ UNCHANGED CrawlerVars

\* await page.goto(...), inside the try: on an exception content = ""
FetcherGoto ==
    /\ fetcher.pc = "goto"
    /\ \/ fetcher' = [fetcher EXCEPT !.pc = "content"]
       \/ fetcher' = [fetcher EXCEPT !.pc = "close", !.content = EmptyMarkup]
    /\ UNCHANGED CrawlerVars

\* content = await page.content(), inside the try: on an exception content = ""
FetcherContent ==
    /\ fetcher.pc = "content"
    /\ \/ \E a \in AnchorLists :
             fetcher' = [fetcher EXCEPT !.pc = "close", !.content = Html(a)]
       \/ fetcher' = [fetcher EXCEPT !.pc = "close", !.content = EmptyMarkup]
    /\ UNCHANGED CrawlerVars

\* await browser.close(), after the try; `return content` then leaves the
\* `async with`, which awaits __aexit__
FetcherClose ==
    /\ fetcher.pc = "close"
    /\ \/ fetcher' = [fetcher EXCEPT !.pc = "exit", !.browser = "closed"]
       \/ fetcher' = [fetcher EXCEPT !.pc = "exit_raising"]
    /\ UNCHANGED CrawlerVars

\* the __aexit__ of async_playwright(): with `return content` pending it
\* returns and the call returns content, or it raises; with an exception of
\* the body pending the call ends raising either way
FetcherExit ==
    /\ fetcher.pc \in { "exit", "exit_raising" }
    /\ \/ /\ fetcher.pc = "exit"
          /\ fetcher' = [fetcher EXCEPT !.pc = "returned"]
       \/ fetcher' = [fetcher EXCEPT !.pc = "raised"]
    /\ UNCHANGED CrawlerVars

FetcherNext ==
    \/ FetcherCall
    \/ FetcherEnter
    \/ FetcherLaunch
    \/ FetcherNewPage
    \/ FetcherGoto
    \/ FetcherContent
    \/ FetcherClose
    \/ FetcherExit

FetcherSpec == FetcherInit /\ [][FetcherNext]_vars

----------------------------------------------------------------------------
(* crawler.py: the accessors                                               *)

\* WebCrawler.get_crawl_stats of a crawler with max_pages # 0; visited_urls is
\* list(set), kept as the set
get_crawl_stats(self) ==
    [pages_scraped          |-> Cardinality(self.visited_urls),
     total_links_discovered |-> Cardinality(self.found_links),
     pages_in_queue         |-> Len(self.url_queue),
     max_pages              |-> self.max_pages,
     completion_percentage  |-> progress_percentage(self.visited_urls, self.max_pages),
     visited_urls           |-> self.visited_urls,
     remaining_queue        |-> self.url_queue]

\* get_all_content with the pages taken last stored first
Mutant_get_all_content_reversed(content) ==
    [i \in 1..Len(content) |->
        [header |-> [text |-> "=== PAGE {i}: {url} ===", i |-> i,
                     url |-> content[Len(content) + 1 - i].url],
         body   |-> content[Len(content) + 1 - i].html,
         rule   |-> "="]]

\* WebCrawler.get_all_content, as its sections in order: the header line
\* f"=== PAGE {i}: {url} ===", the text of the page's body (here the page it
\* is cleaned from; a page the browser serialised has a body) and the rule of
\* '=' that ends the section
get_all_content(content) ==
    [i \in 1..Len(content) |->
        [header |-> [text |-> "=== PAGE {i}: {url} ===", i |-> i, url |-> content[i].url],
         body   |-> content[i].html,
         rule   |-> "="]]

\* the fields of the crawler get_crawl_stats reads
Crawler ==
    [max_pages |-> max_pages, visited_urls |-> visited_urls,
     found_links |-> found_links, url_queue |-> url_queue]

ObjectSpec == ObjectInit /\ [][ObjectNext]_vars

----------------------------------------------------------------------------
(* Properties                                                              *)

UrlSeed == <<"h", "t", "t", "p", ":", "/", "/", "a", ".", "i", "o", "/">>
UrlB == <<"h", "t", "t", "p", ":", "/", "/", "a", ".", "i", "o", "/", "b">>
UrlC == <<"h", "t", "t", "p", ":", "/", "/", "a", ".", "i", "o", "/", "c">>
UrlD == <<"h", "t", "t", "p", ":", "/", "/", "x", ".", "i", "o", "/", "d">>

NoDuplicates(s) == \A i, j \in 1..Len(s) : i # j => s[i] # s[j]

\* the URLs of scraped_content, in insertion order: the order of the visits
VisitOrder == [i \in 1..Len(scraped_content) |-> scraped_content[i].url]

\* the URLs fetched, in order, failed attempts included
FetchOrder == [i \in 1..Len(fetch_log) |-> fetch_log[i].url]

\* the URL a page's anchor resolves to
LinkOf(page, href) == urljoin_table[page.url, href]

\* the stored page is one extract_links returned from
Extracted(page) ==
    ~extract_links_raises([same_domain_only |-> same_domain_only], page.html, page.url)

\* C1 (page budget): in every state of a session on a fresh crawler the
\* number of visited URLs is at most max_pages, and so is the number of
\* entries of scraped_content, the mapping crawl_website returns.
C1_PageBudget ==
    /\ Cardinality(visited_urls) <= max_pages
    /\ Len(scraped_content) <= max_pages
    /\ Cardinality(Keys(scraped_content)) <= max_pages

\* C1 witness: the crawl ended on the budget with work left in the queue
C1_Witness ==
    /\ pc = "done"
    /\ max_pages >= 2
    /\ Cardinality(visited_urls) = max_pages
    /\ Len(scraped_content) = max_pages
    /\ url_queue # << >>

\* C2 (BFS / FIFO order): URLs are fetched in the order they were put into
\* url_queue, the seed first; and when the seed yields B then C, B yields D
\* and the first four fetches succeed, the visit order is seed, B, C, D.
C2_FifoOrder ==
    /\ Len(fetch_log) <= Len(enqueue_log)
    /\ \A i \in 1..Len(fetch_log) : fetch_log[i].url = enqueue_log[i]
    /\ (fetch_log # << >> => fetch_log[1].url = start_url)
    /\ \A i, j \in 1..Len(enqueue_log) :
          (i < j /\ enqueue_log[j] \in Range(FetchOrder))
             => \E k, l \in 1..Len(fetch_log) :
                   k < l /\ fetch_log[k].url = enqueue_log[i] /\ fetch_log[l].url = enqueue_log[j]
    /\ ( /\ Len(enqueue_log) >= 4
         /\ SubSeq(enqueue_log, 1, 4) = << UrlSeed, UrlB, UrlC, UrlD >>
         /\ Len(fetch_log) >= 4
         /\ \A i \in 1..4 : fetch_log[i].result = "html" )
        => SubSeq(VisitOrder, 1, 4) = << UrlSeed, UrlB, UrlC, UrlD >>

\* C2 witness: the seed page links to /b then c, page B links to D, nothing
\* failed, and the four pages were visited
C2_Witness ==
    /\ Len(scraped_content) = 4
    /\ Len(fetch_log) = 4
    /\ scraped_content[1].html.anchors = << <<"/", "b">>, <<"c">> >>
    /\ scraped_content[2].html.anchors = << <<"/", "/", "x", ".", "i", "o", "/", "d">>, <<"/", "b">>, <<"b">> >>
    /\ VisitOrder = << UrlSeed, UrlB, UrlC, UrlD >>

\* C3 (no duplicate visits): a step marks a URL visited only if it was not
\* visited before; visited_urls only grows; the entries of scraped_content
\* are never changed or removed, new ones are added at the end.
C3_NoDuplicateVisits ==
    [][ /\ visited_urls \subseteq visited_urls'
        /\ Len(scraped_content') >= Len(scraped_content)
        /\ \A i \in 1..Len(scraped_content) : scraped_content'[i] = scraped_content[i]
        /\ \A i \in (Len(scraped_content) + 1)..Len(scraped_content') :
              /\ scraped_content'[i].url \notin visited_urls
              /\ scraped_content'[i].url \notin Keys(scraped_content)
        /\ (visited_urls' # visited_urls =>
              /\ Cardinality(visited_urls') = Cardinality(visited_urls) + 1
              /\ Len(scraped_content') = Len(scraped_content) + 1)
        /\ NoDuplicates(VisitOrder')
      ]_vars

\* C3 witness: a page visited later links back to a page visited earlier
C3_Witness ==
    \E i, j \in 1..Len(scraped_content) :
        /\ i < j
        /\ \E h \in Range(scraped_content[j].html.anchors) :
              LinkOf(scraped_content[j], h) = scraped_content[i].url

\* C4 (discovered superset): every visited URL and every URL that is or ever
\* was in url_queue is in found_links, and found_links holds nothing else: a
\* URL enters found_links in the step that seeds or queues it.
C4_DiscoveredSuperset ==
    /\ visited_urls \subseteq found_links
    /\ Range(url_queue) \subseteq found_links
    /\ Range(enqueue_log) = found_links

\* the part of C4 the code keeps: all of it when the seed is one urlparse
\* accepts
C4_ParsedSeedDiscoveredSuperset ==
    start_url \notin MalformedUrls => C4_DiscoveredSuperset

\* C4 witness: links were queued, some visited, some still waiting
C4_Witness ==
    /\ Cardinality(visited_urls) >= 2
    /\ Len(enqueue_log) >= 4
    /\ url_queue # << >>

\* the "Found n new links" events, each with the event before it
FoundEvents == { k \in 2..Len(events) : events[k].message.text = MsgFound(0).text }

\* C5 (idempotent offer): url_queue never holds a URL twice, no URL is put
\* into the queue twice in a session, total_links_found counts each URL once,
\* and the new-links count of a page is the number of URLs it added.
C5_IdempotentOffer ==
    /\ NoDuplicates(url_queue)
    /\ NoDuplicates(enqueue_log)
    /\ Cardinality(found_links) = Len(enqueue_log)
    /\ \A k \in FoundEvents :
          events[k].message.args[1]
             = events[k].total_links_found - events[k - 1].total_links_found
    /\ \A k \in 1..Len(events) : events[k].total_links_found <= Len(enqueue_log)

\* C5 witness: two visited pages link to the same URL, which was counted once
C5_Witness ==
    /\ progress_callback
    /\ \E i, j \in 1..Len(scraped_content) :
          /\ i < j
          /\ \E g \in Range(scraped_content[i].html.anchors),
                 h \in Range(scraped_content[j].html.anchors) :
                /\ LinkOf(scraped_content[i], g) = LinkOf(scraped_content[j], h)
                /\ LinkOf(scraped_content[i], g) \in found_links
          /\ \E k \in FoundEvents :
                /\ events[k].current_url = scraped_content[j].url
                /\ events[k].links_on_current_page > events[k].message.args[1]

\* the last element of a non-empty sequence
Last(s) == s[Len(s)]

\* C6 (fetch failure is local): a step in which the fetch returns "" or None
\* leaves visited_urls, scraped_content, found_links and the queue as they
\* are, queues nothing, hands a "Failed to scrape" event for that URL to the
\* progress callback (when one is set) and goes back to the loop test.
C6_FetchFailureLocal ==
    [][ (fetch_log' # fetch_log /\ Last(fetch_log').result # "html") =>
          /\ Last(fetch_log').url = current_url
          /\ visited_urls' = visited_urls
          /\ scraped_content' = scraped_content
          /\ found_links' = found_links
          /\ url_queue' = url_queue
          /\ enqueue_log' = enqueue_log
          /\ pc' = "loop"
          /\ (progress_callback =>
                /\ Len(events') = Len(events) + 1
                /\ SubSeq(events', 1, Len(events)) = events
                /\ Last(events').message = MsgFailed
                /\ Last(events').current_url = current_url
                /\ Last(events').visited_count = Cardinality(visited_urls)
                /\ Last(events').total_links_found = Cardinality(found_links))
          /\ (~progress_callback => events' = events)
      ]_vars

\* C6 witness: after visited pages, one fetch returned "" and one None, and
\* the crawl went on to fetch again
C6_Witness ==
    /\ progress_callback
    /\ visited_urls # {}
    /\ \E i, j, k \in 1..Len(fetch_log) :
          /\ i < k /\ j < k
          /\ fetch_log[i].result = "empty"
          /\ fetch_log[j].result = "none"
          /\ fetch_log[k].result = "html"
    /\ \E e \in 1..Len(events) : events[e].message = MsgFailed

\* C7 (seed failure): when the fetch of the seed fails, that fetch stays the
\* only one, nothing is visited or stored, the loop condition is false, and
\* the session ends in "done" with the final summary event reporting 0 pages.
C7_SeedFailure ==
    (fetch_log # << >> /\ fetch_log[1].result # "html") =>
        /\ fetch_log[1].url = start_url
        /\ Len(fetch_log) = 1
        /\ visited_urls = {}
        /\ scraped_content = << >>
        /\ pc \in { "loop", "done" }
        /\ ~LoopCond
        /\ (pc = "done" /\ progress_callback =>
              /\ Last(events).message = MsgFinal(0, 1)
              /\ Last(events).visited_count = 0
              /\ \A k \in 1..(Len(events) - 1) : events[k].message.text # MsgFinal(0, 1).text)

\* C7 witness: the session ended after the failed fetch of the seed
C7_Witness ==
    /\ pc = "done"
    /\ progress_callback
    /\ Len(fetch_log) = 1
    /\ fetch_log[1].url = start_url
    /\ fetch_log[1].result # "html"
    /\ scraped_content = << >>
    /\ Last(events).message = MsgFinal(0, 1)

\* C8 (termination): under LiveSpec, where every fetch returns and every
\* sleep ends, a started session reaches "done", and crawl_website never
\* ends by an exception.
C8_Termination ==
    /\ (pc # "idle") ~> (pc = "done")
    /\ [](pc # "raised")

\* C8 witness: a session with failed and successful fetches has ended
C8_Witness ==
    /\ pc = "done"
    /\ Cardinality(visited_urls) >= 2
    /\ \E i \in 1..Len(fetch_log) : fetch_log[i].result # "html"
    /\ url_queue = << >>

\* C9 (seed-anchored domain scope): for every link of a visited page whose
\* links were extracted the filter gives the same verdict against the page's
\* domain as against the seed's; and with same_domain_only every URL ever
\* queued or visited has the seed's domain.
C9_SeedAnchoredScope ==
    /\ \A i \in { j \in 1..Len(scraped_content) : Extracted(scraped_content[j]) } :
          \A h \in Range(scraped_content[i].html.anchors) :
             is_valid_url_table[same_domain_only, LinkOf(scraped_content[i], h),
                                get_domain_table[scraped_content[i].url]]
               = is_valid_url_table[same_domain_only, LinkOf(scraped_content[i], h),
                                    get_domain_table[start_url]]
    /\ (same_domain_only /\ pc # "idle") =>
          \A u \in Range(enqueue_log) \cup Range(url_queue) \cup visited_urls
                     \cup Keys(scraped_content) :
             get_domain_table[u] = get_domain_table[start_url]

\* C9 witness: with same_domain_only a page other than the seed linked to
\* another host and to a port of the seed's host, and neither was queued
C9_Witness ==
    /\ same_domain_only
    /\ \E i, j \in 2..Len(scraped_content) :
          /\ <<"/", "/", "x", ".", "i", "o", "/", "d">> \in Range(scraped_content[i].html.anchors)
          /\ <<"h", "t", "t", "p", ":", "/", "/", "a", ".", "i", "o", ":", "8", "0", "/", "p">> \in Range(scraped_content[j].html.anchors)
    /\ UrlD \notin found_links
    /\ <<"h", "t", "t", "p", ":", "/", "/", "a", ".", "i", "o", ":", "8", "0", "/", "p">> \notin found_links

\* URLs and domains the filter rule is checked on, those of the crawl included
FilterUrls ==
    UrlUniverse \cup
    { << >>, <<"#", "t", "o", "p">>, <<"m", "a", "i", "l", "t", "o", ":", "a", "@", "b", ".", "c">>, <<"t", "e", "l", ":", "1">>, <<"M", "A", "I", "L", "T", "O", ":", "a", "@", "b">>, <<"/", "r", "e", "l">>, <<"/", "/", "a", ".", "i", "o", "/", "x">>,
      <<"h", "t", "t", "p", ":", "/", "/", "a", ".", "i", "o", "/", "r", "a", "p", "i", "d">>, <<"h", "t", "t", "p", ":", "/", "/", "a", "p", "i", ".", "a", ".", "i", "o", "/", "x">>, <<"h", "t", "t", "p", ":", "/", "/", "a", ".", "i", "o", "/", "x", "?", "n", "e", "x", "t", "=", "L", "o", "g", "i", "n">>,
      <<"h", "t", "t", "p", ":", "/", "/", "a", ".", "i", "o", "/", "f", "i", "l", "e", ".", "j", "s", "o", "n", "?", "x", "=", "1">>, <<"h", "t", "t", "p", ":", "/", "/", "a", ".", "i", "o", "/", "m", "a", "i", "n", ".", "j", "s">>, <<"h", "t", "t", "p", ":", "/", "/", "a", ".", "i", "o", "/", "p", ".", "J", "P", "e", "G">>,
      <<"h", "t", "t", "p", ":", "/", "/", "a", ".", "i", "o", "/", "f", "e", "e", "d", "b", "a", "c", "k">>, <<"h", "t", "t", "p", ":", "/", "/", "a", ".", "i", "o", "/", "c", "a", "r">>, <<"h", "t", "t", "p", ":", "/", "/", "a", ".", "i", "o", "/", "x", ".", "t", "a", "r", ".", "g", "z", "#", "f">>,
      <<"h", "t", "t", "p", ":", "/", "/", "A", ".", "i", "o", "/", "p">>, <<"h", "t", "t", "p", "s", ":", "/", "/", "a", ".", "i", "o", "/", "p">>, <<"h", "t", "t", "p", ":", "/", "/", "a", ".", "i", "o", "/", "T", "e", "l", ":">>, <<"h", "t", "t", "p", ":", "/", "/", "a", ".", "i", "o", "/", "#", "t", "o", "p">>,
      <<"h", "t", "t", "p", "s", ":", "/", "/", "x", ".", "c", "o", "m", "/", "l", "o", "g", "i", "n">>, <<"h", "t", "t", "p", "s", ":", "/", "/", "x", ".", "c", "o", "m", "/", "a", "b", "o", "u", "t">>, <<"h", "t", "t", "p", "s", ":", "/", "/", "o", "t", "h", "e", "r", ".", "c", "o", "m", "/", "a", "b", "o", "u", "t">>,
      <<"h", "t", "t", "p", "s", ":", "/", "/", "x", ".", "c", "o", "m", "/", "r", "e", "p", "o", "r", "t", ".", "p", "d", "f">> }

FilterDomains == Domains \cup { <<"x", ".", "c", "o", "m">>, <<"o", "t", "h", "e", "r", ".", "c", "o", "m">> }

\* the rule of the claim: the four reasons to reject a URL
Rejected(same_domain, url, base_domain) ==
    LET lowered == lower(url)
    IN  \/ url = << >>
        \/ \E p \in { <<"#">>, <<"m", "a", "i", "l", "t", "o", ":">>, <<"t", "e", "l", ":">> } :
              startswith(url, p)
        \/ \E e \in Range(EXCLUDED_EXTENSIONS) : endswith(lowered, e)
        \/ \E k \in Range(EXCLUDED_URL_KEYWORDS) :
              \E i \in 1..Len(url) : startswith(from(lowered, i), k)
        \/ (same_domain /\ get_domain(url) # base_domain)

\* is_valid_url and the rule, over FilterUrls and FilterDomains, computed once
filter_verdicts ==
    [s \in BOOLEAN, u \in FilterUrls, d \in FilterDomains |->
        is_valid_url([same_domain_only |-> s], u, d)]

rule_verdicts ==
    [s \in BOOLEAN, u \in FilterUrls, d \in FilterDomains |-> ~Rejected(s, u, d)]

\* whether is_valid_url and the rule agree on every URL and domain, per setting
\* of same_domain_only
rule_agrees ==
    [s \in BOOLEAN |->
        \A u \in FilterUrls, d \in FilterDomains :
           filter_verdicts[s, u, d] = rule_verdicts[s, u, d]]

\* whether is_valid_url raises on one of them, per setting of same_domain_only
malformed_raises ==
    [s \in BOOLEAN |->
        \E u \in MalformedUrls, d \in FilterDomains \cup { <<"[">> } :
            is_valid_url_raises([same_domain_only |-> s], u, d)]

\* the part of C10 the code keeps: on every URL that urlparse accepts
\* is_valid_url is False exactly when one of the four rules rejects the URL
\* (its domain being the netloc get_domain returns), and in a crawl, whatever
\* its state, a link of a visited page whose links were extracted is found
\* exactly when the rule accepts it.
C10_FilterRulesWellFormed ==
    /\ rule_agrees[same_domain_only]
    /\ ~filter_verdicts[TRUE, <<"h", "t", "t", "p", "s", ":", "/", "/", "x", ".", "c", "o", "m", "/", "l", "o", "g", "i", "n">>, <<"x", ".", "c", "o", "m">>]
    /\ filter_verdicts[TRUE, <<"h", "t", "t", "p", "s", ":", "/", "/", "x", ".", "c", "o", "m", "/", "a", "b", "o", "u", "t">>, <<"x", ".", "c", "o", "m">>]
    /\ ~filter_verdicts[TRUE, <<"h", "t", "t", "p", "s", ":", "/", "/", "o", "t", "h", "e", "r", ".", "c", "o", "m", "/", "a", "b", "o", "u", "t">>, <<"x", ".", "c", "o", "m">>]
    /\ ~filter_verdicts[TRUE, <<"h", "t", "t", "p", "s", ":", "/", "/", "x", ".", "c", "o", "m", "/", "r", "e", "p", "o", "r", "t", ".", "p", "d", "f">>, <<"x", ".", "c", "o", "m">>]
    /\ \A i \in { j \in 1..Len(scraped_content) : Extracted(scraped_content[j]) } :
          \A h \in Range(scraped_content[i].html.anchors) :
             LET link     == LinkOf(scraped_content[i], h)
                 accepted == rule_verdicts[same_domain_only, link,
                                           get_domain_table[scraped_content[i].url]]
             IN  /\ accepted => link \in found_links
                 /\ (link \in found_links /\ link # start_url) => accepted

\* C10 (URL filter rules): is_valid_url(url, base_domain) returns for every
\* URL, and is False exactly when the URL is empty or starts with '#',
\* 'mailto:' or 'tel:', or its lower-cased form ends with a denylisted
\* extension or contains a denylisted keyword anywhere, or same_domain_only is
\* set and its domain differs from base_domain; otherwise it is True; and in a
\* crawl, whatever its state, a link of a visited page is found exactly when
\* the rule accepts it.
C10_FilterRules ==
    /\ ~malformed_raises[same_domain_only]
    /\ C10_FilterRulesWellFormed

\* C10 witness: a visited page held links rejected for a keyword, for an
\* extension and for the mailto: prefix beside a link that was accepted
C10_Witness ==
    \E i \in 1..Len(scraped_content) :
        /\ scraped_content[i].html.anchors = << <<"/", "A", "P", "I", "/", "v", "1">>, <<"/", "r", ".", "P", "D", "F">>, <<"m", "a", "i", "l", "t", "o", ":", "m", "@", "a", ".", "i", "o">>, <<"c">> >>
        /\ LinkOf(scraped_content[i], <<"c">>) \in found_links
        /\ LinkOf(scraped_content[i], <<"/", "A", "P", "I", "/", "v", "1">>) \notin found_links
        /\ LinkOf(scraped_content[i], <<"/", "r", ".", "P", "D", "F">>) \notin found_links
        /\ LinkOf(scraped_content[i], <<"m", "a", "i", "l", "t", "o", ":", "m", "@", "a", ".", "i", "o">>) \notin found_links

----------------------------------------------------------------------------
(* Properties of any WebCrawler object and of pages that do not parse      *)

\* C11 (invalid configuration is rejected before the session starts): a crawler
\* constructed with max_pages < 1 never queues a URL, never records a
\* discovered link, never emits a progress event, never fetches a page, and
\* its crawl_website never gets past a configuration error.
C11_InvalidConfigRejected ==
    max_pages < 1 =>
        /\ url_queue = << >>
        /\ found_links = {}
        /\ events = << >>
        /\ fetch_log = << >>
        /\ pc \in { "idle", "raised" }

\* C12 (extraction failure is recovered locally): when the fetch returned a
\* page on which extract_links fails, the step marks the page visited, stores
\* its content, adds no link to found_links or to the queue, and leaves
\* crawl_website in its loop.
C12_ExtractionFailureLocal ==
    [][ (/\ pc = "fetch"
         /\ current_url \in visited_urls'
         /\ extract_links_raises([same_domain_only |-> same_domain_only],
                                 Last(scraped_content').html, current_url))
        => /\ Last(scraped_content').url = current_url
           /\ found_links' = found_links
           /\ url_queue' = url_queue
           /\ pc' \in { "loop", "sleep" } ]_vars

\* C13 (fresh state per crawl invocation): every call of crawl_website, a
\* second call on the same object included, gets to its loop with nothing
\* visited, nothing stored, and the seed as the only discovered link.
C13_FreshStatePerCall ==
    [][ (pc = "idle" /\ pc' # "idle")
        => /\ visited_urls' = {}
           /\ scraped_content' = << >>
           /\ found_links' = { start_url' } ]_vars

----------------------------------------------------------------------------
(* Properties of the budget, the events, the pacing and the counts         *)

\* the links extract_links returns for a stored page
LinksOf(page) == extract_links([same_domain_only |-> same_domain_only], page.html, page.url)

\* C14 as claimed (no enqueuing once the budget is reached): a step that ends
\* with |visited_urls| = max_pages appends nothing to url_queue, the step that
\* fills the budget included.
C14_NoEnqueueAtBudget ==
    [][ Cardinality(visited_urls') >= max_pages => enqueue_log' = enqueue_log ]_vars

\* C14 as amended: once |visited_urls| = max_pages holds, no later step appends
\* to url_queue, pops from it or fetches a page; the links of the page whose
\* visit fills the budget are still offered, in the step that fills it.
C14_NoWorkAfterBudget ==
    [][ Cardinality(visited_urls) >= max_pages
        => /\ enqueue_log' = enqueue_log
           /\ url_queue' = url_queue
           /\ fetch_log' = fetch_log
           /\ visited_urls' = visited_urls ]_vars

\* C14 witness: a crawl of two pages or more ended at its budget, and a URL
\* still queued is a link of the last page visited and of no page before it
C14_Witness ==
    /\ pc = "done"
    /\ max_pages >= 2
    /\ Cardinality(visited_urls) = max_pages
    /\ \A i \in 1..Len(scraped_content) : Extracted(scraped_content[i])
    /\ \E u \in Range(url_queue) :
          /\ u \in LinksOf(Last(scraped_content))
          /\ \A i \in 1..(Len(scraped_content) - 1) : u \notin LinksOf(scraped_content[i])

\* the event stream of a whole crawl: the start event, then for each fetch in
\* order a scraping event and right after it one outcome event for the same
\* URL (found on success, failed otherwise), then one final summary event
\* with the final counts
CompleteStream(evs) ==
    /\ Len(evs) = 2 * Len(fetch_log) + 2
    /\ evs[1].message = MsgStart
    /\ evs[1].current_url = start_url
    /\ \A i \in 1..Len(fetch_log) :
          /\ evs[2 * i].message = MsgScraping
          /\ evs[2 * i].current_url = fetch_log[i].url
          /\ evs[2 * i + 1].current_url = fetch_log[i].url
          /\ evs[2 * i + 1].message.text
                = IF fetch_log[i].result = "html" THEN MsgFound(0).text ELSE MsgFailed.text
    /\ Last(evs).message = MsgFinal(Cardinality(visited_urls), Cardinality(found_links))
    /\ Last(evs).current_url = None
    /\ Last(evs).visited_count = Cardinality(visited_urls)
    /\ Last(evs).total_links_found = Cardinality(found_links)

\* C15 (the event stream reconstructs the crawl trace): when crawl_website has
\* ended, by returning or by raising, the events handed to the callback are
\* the start event, a scraping event followed at once by one outcome event
\* for each fetch in loop order, and one final summary event, the last,
\* carrying the final visited and discovered counts.
C15_EventStream ==
    (progress_callback /\ pc \in { "done", "raised" }) => CompleteStream(events)

\* the same of the crawls that returned
C15_ReturnedStream ==
    (progress_callback /\ pc = "done") => CompleteStream(events)

\* C16 (pacing): crawl_website suspends in asyncio.sleep exactly after a step
\* that fetched a page, offered its links and emitted its found event, and
\* only when delay > 0; never after a failed fetch, after a skipped URL or
\* with delay = 0; the next fetch starts only after the suspension ends; and
\* the suspension changes nothing of the crawl's state.
C16_Pacing ==
    [][ /\ (pc' = "sleep" /\ pc # "sleep")
             => /\ delay > 0
                /\ pc = "fetch"
                /\ fetch_log' = Append(fetch_log, [url |-> current_url, result |-> "html"])
                /\ current_url \in visited_urls'
                /\ LinksOf(Last(scraped_content')) \subseteq found_links'
                /\ (progress_callback =>
                       /\ Len(events') = Len(events) + 1
                       /\ Last(events').message.text = MsgFound(0).text
                       /\ Last(events').current_url = current_url)
        /\ (/\ delay > 0
            /\ fetch_log' # fetch_log
            /\ Last(fetch_log').result = "html"
            /\ pc' # "raised")
             => pc' = "sleep"
        /\ (pc = "sleep")
             => /\ pc' = "loop"
                /\ UNCHANGED << config, calls, suspended, fetcher, visited_urls, scraped_content, url_queue,
                                found_links, start_url, current_url, events, fetch_log,
                                enqueue_log >> ]_vars

\* C16 witness: with a delay set crawl_website is suspended after the third
\* fetch, a page, the second fetch having failed
C16_Witness ==
    /\ pc = "sleep"
    /\ delay > 0
    /\ Len(fetch_log) = 3
    /\ fetch_log[2].result # "html"
    /\ Last(fetch_log).result = "html"

\* the fetches so far that returned a page
Successes == { i \in 1..Len(fetch_log) : fetch_log[i].result = "html" }

\* C17 (accurate counts): in every state the keys of scraped_content are
\* visited_urls, |visited_urls| is the number of fetches that returned a page,
\* get_crawl_stats reports these counts and so does every event when it is
\* emitted, and a step in which a
\* fetch fails leaves the visited and discovered counts of get_crawl_stats
\* and of the events where they were.
C17_AccurateCounts ==
    /\ [](/\ Keys(scraped_content) = visited_urls
          /\ Len(scraped_content) = Cardinality(visited_urls)
          /\ Cardinality(visited_urls) = Cardinality(Successes)
          /\ get_crawl_stats(Crawler).pages_scraped = Cardinality(Successes)
          /\ \A k \in 1..Len(events) :
                /\ events[k].visited_count <= Cardinality(Successes)
                /\ events[k].total_links_found <= Cardinality(found_links))
    /\ [][ events' # events =>
            /\ Last(events').visited_count = get_crawl_stats(Crawler)'.pages_scraped
            /\ Last(events').total_links_found
                 = get_crawl_stats(Crawler)'.total_links_discovered ]_vars
    /\ [][ (fetch_log' # fetch_log /\ Last(fetch_log').result # "html") =>
            /\ get_crawl_stats(Crawler)' = get_crawl_stats(Crawler)
            /\ (progress_callback =>
                  /\ Last(events').visited_count = Last(events).visited_count
                  /\ Last(events').total_links_found = Last(events).total_links_found)
        ]_vars

\* C17 witness: a crawl with a callback returned after four fetches of which
\* two failed, with two pages visited
C17_Witness ==
    /\ pc = "done"
    /\ progress_callback
    /\ Len(fetch_log) = 4
    /\ Cardinality(Successes) = 2
    /\ Cardinality(visited_urls) = 2
    /\ Last(events).visited_count = 2

\* the URL of the k-th fetch that returned a page
RECURSIVE SuccessUrls(_)
SuccessUrls(log) ==
    IF log = << >> THEN << >>
    ELSE (IF Head(log).result = "html" THEN << Head(log).url >> ELSE << >>)
           \o SuccessUrls(Tail(log))

\* C18 (assembly ordering): get_all_content has one section per visited URL,
\* labelled 1, 2, ... in order, and its k-th section carries the URL and the
\* page of the k-th visit of the crawl.
C18_AssemblyOrder ==
    /\ Len(get_all_content(scraped_content)) = Cardinality(visited_urls)
    /\ Len(get_all_content(scraped_content)) = Len(SuccessUrls(fetch_log))
    /\ \A k \in 1..Len(get_all_content(scraped_content)) :
          /\ get_all_content(scraped_content)[k].header.i = k
          /\ get_all_content(scraped_content)[k].header.url = SuccessUrls(fetch_log)[k]
          /\ get_all_content(scraped_content)[k].body = scraped_content[k].html

\* C18 witness: three pages were visited, c before b, a fetch failed in
\* between, and the sections come in that order
C18_Witness ==
    /\ pc = "done"
    /\ Len(get_all_content(scraped_content)) = 3
    /\ get_all_content(scraped_content)[1].header.url = UrlSeed
    /\ get_all_content(scraped_content)[2].header.url = UrlC
    /\ get_all_content(scraped_content)[3].header.url = UrlB
    /\ \E i \in 2..Len(fetch_log) : fetch_log[i].result # "html"

\* the host of a netloc: what follows the last '@', up to the first ':',
\* lower-cased (SplitResult.hostname, for a netloc without brackets)
hostname(netloc) ==
    LET hostinfo == IF "@" \in Range(netloc)
                    THEN from(netloc, 1 + CHOOSE i \in 1..Len(netloc) :
                                            /\ netloc[i] = "@"
                                            /\ \A j \in (i + 1)..Len(netloc) : netloc[j] # "@")
                    ELSE netloc
    IN  lower(BeforeChar(hostinfo, ":"))

hostname_table == [u \in UrlUniverse |-> hostname(get_domain(u))]

\* C19 (the same-domain comparison uses only the host): with same_domain_only,
\* a link of a visited page that passes the prefix, extension and keyword
\* rules and whose host is the host of the page is accepted and recorded in
\* found_links, whatever its scheme, port or userinfo.
C19_HostOnlyComparison ==
    same_domain_only =>
        \A i \in { j \in 1..Len(scraped_content) : Extracted(scraped_content[j]) } :
            \A h \in Range(scraped_content[i].html.anchors) :
                (/\ is_valid_url_table[FALSE, LinkOf(scraped_content[i], h), << >>]
                 /\ hostname_table[LinkOf(scraped_content[i], h)]
                      = hostname_table[scraped_content[i].url])
                => LinkOf(scraped_content[i], h) \in found_links

\* C20 (the page fetcher never raises past its boundary): a call of
\* scrape_website_playwright never ends by raising, whichever step fails; when
\* it has ended the browser it launched is closed; and the browser is never
\* left open by a call that has ended.
C20_FetcherNeverRaises ==
    /\ fetcher.pc # "raised"
    /\ fetcher.pc = "returned" =>
          /\ fetcher.browser = "closed"
          /\ fetcher.content.kind \in { "html", "empty" }

\* the part of C20 the code keeps: a failed navigation or content read is
\* caught, the browser is closed and "" is returned
C20_NavigationFailureCaught ==
    (fetcher.pc \in { "close", "exit", "returned" } /\ fetcher.content = EmptyMarkup) =>
        fetcher.browser = IF fetcher.pc = "close" THEN "open" ELSE "closed"

----------------------------------------------------------------------------
(* Properties of the extractor, the percentage, the fetch attempts and the *)
(* frontier                                                                *)

\* the stored page of a visited URL
StoredPage(url) == scraped_content[CHOOSE i \in 1..Len(scraped_content) : scraped_content[i].url = url]

\* every href of a page resolved against the page's URL
AllResolved(page) == { LinkOf(page, h) : h \in Range(page.html.anchors) }

\* the resolved hrefs of a page that the filter accepts against the page's
\* own domain
Eligible(page) ==
    { l \in AllResolved(page) :
        is_valid_url_table[same_domain_only, l, get_domain_table[page.url]] }

\* C21 as claimed (the extractor applies no filtering): the number of links
\* extract_links returned for a page, which the page's found event reports as
\* links_on_current_page, is the number of distinct resolved hrefs of the
\* page, those the filter rejects included.
C21_ExtractUnfiltered ==
    \A k \in FoundEvents :
        events[k].links_on_current_page
          = Cardinality(AllResolved(StoredPage(events[k].current_url)))

\* C21 as amended: extract_links returns the distinct resolved hrefs that
\* is_valid_url accepts against the page's own domain, and the loop offers
\* every one of them with no further filtering: links_on_current_page counts
\* exactly the accepted ones, and found_links is the seed and the accepted
\* links of the pages extracted so far.
C21_ExtractFiltered ==
    /\ \A k \in FoundEvents :
          events[k].links_on_current_page
            = Cardinality(Eligible(StoredPage(events[k].current_url)))
    /\ pc # "idle" =>
          found_links
            = { start_url }
                \cup UNION { Eligible(scraped_content[i]) :
                               i \in { j \in 1..Len(scraped_content) :
                                         Extracted(scraped_content[j]) } }

\* C21 witness: a page with four anchors, three of them rejected by the
\* filter, was reported with one link on the page
C21_Witness ==
    \E k \in FoundEvents :
        /\ Len(StoredPage(events[k].current_url).html.anchors) = 4
        /\ Cardinality(AllResolved(StoredPage(events[k].current_url))) = 4
        /\ events[k].links_on_current_page = 1

\* equality and order of two fractions with positive denominators
RatEq(p, q) == p.num * q.den = q.num * p.den
RatLeq(p, q) == p.num * q.den <= q.num * p.den

\* min(100 * v / mp, 100) for mp > 0, as a fraction
CappedShare(v, mp) ==
    IF 100 * v <= 100 * mp THEN [num |-> 100 * v, den |-> mp]
    ELSE [num |-> 100, den |-> 1]

\* a percentage is the capped share of v in max_pages, lies in [0, 100], and
\* is 100 exactly when v = max_pages
IsShare(p, v) ==
    /\ p.den > 0
    /\ RatEq(p, CappedShare(v, max_pages))
    /\ 0 <= p.num /\ p.num <= 100 * p.den
    /\ (p.num = 100 * p.den) <=> (v = max_pages)

\* C22 (progress percentage): the progress_percentage of every emitted event
\* and the completion_percentage of get_crawl_stats equal
\* min(100 * |visited_urls| / max_pages, 100), lie in [0, 100], never decrease
\* from one event of the session to the next, and are 100 exactly when
\* |visited_urls| = max_pages.
C22_ProgressPercentage ==
    /\ \A k \in 1..Len(events) :
          IsShare(events[k].progress_percentage, events[k].visited_count)
    /\ \A k \in 1..(Len(events) - 1) :
          RatLeq(events[k].progress_percentage, events[k + 1].progress_percentage)
    /\ IsShare(get_crawl_stats(Crawler).completion_percentage,
               Cardinality(visited_urls))

\* C22 witness: a finished crawl with max_pages = 3 whose events passed
\* through 0, 100/3 and 200/3 and ended at 100
C22_Witness ==
    /\ pc = "done"
    /\ max_pages = 3
    /\ \A v \in 0..2 :
          \E k \in 1..Len(events) :
              /\ events[k].visited_count = v
              /\ events[k].progress_percentage = [num |-> 100 * v, den |-> 3]
    /\ Last(events).progress_percentage = [num |-> 100, den |-> 1]
    /\ get_crawl_stats(Crawler).completion_percentage = [num |-> 100, den |-> 1]

\* the URLs whose fetch returned "" or None
FailedUrls == { fetch_log[i].url : i \in { j \in 1..Len(fetch_log) : fetch_log[j].result # "html" } }

\* C23 (at most one fetch attempt per URL): in a session on a fresh crawler
\* scrape_single_page is called at most once for any URL, failed calls
\* included; a URL whose fetch failed is never put into the queue again,
\* whatever links to it later.
C23_OneAttemptPerUrl ==
    /\ NoDuplicates(FetchOrder)
    /\ NoDuplicates(enqueue_log)
    /\ FailedUrls \cap Range(url_queue) = { }
    /\ FailedUrls \cap visited_urls = { }
    /\ (pc = "fetch" => current_url \notin { fetch_log[i].url : i \in 1..Len(fetch_log) })

\* C23 witness: a URL failed, a page fetched after it links to it, and the
\* crawl finished with one attempt on it
C23_Witness ==
    /\ pc = "done"
    /\ \E i, j \in 1..Len(fetch_log) :
          /\ i < j
          /\ fetch_log[i].result # "html"
          /\ fetch_log[j].result = "html"
          /\ Extracted(StoredPage(fetch_log[j].url))
          /\ fetch_log[i].url \in Eligible(StoredPage(fetch_log[j].url))

\* the program is at a loop boundary: about to test the loop condition, in
\* the sleep that ends an iteration, or past the loop
AtLoopBoundary == pc \in { "loop", "sleep", "done" }

\* C24 (frontier partition): at every loop boundary of a session on a fresh
\* crawler found_links is the disjoint union of visited_urls, the URLs in
\* url_queue and the URLs whose fetch failed; no queued URL is visited, every
\* link newly added to found_links was appended to the queue, and the
\* new-links count a page reports is the number of URLs its step appended.
C24_FrontierPartition ==
    /\ AtLoopBoundary =>
          /\ found_links = visited_urls \cup Range(url_queue) \cup FailedUrls
          /\ visited_urls \cap Range(url_queue) = { }
          /\ visited_urls \cap FailedUrls = { }
          /\ Range(url_queue) \cap FailedUrls = { }
          /\ NoDuplicates(url_queue)
    /\ Len(enqueue_log) = Cardinality(found_links)
    /\ Range(enqueue_log) = found_links
    /\ \A k \in FoundEvents :
          /\ events[k].message.args[1] = events[k].queue_size - events[k - 1].queue_size
          /\ events[k].message.args[1]
               = events[k].total_links_found - events[k - 1].total_links_found

\* C24 witness: at the top of the loop all three parts are non-empty, and a
\* page reported fewer new links than links on the page
C24_Witness ==
    /\ pc = "loop"
    /\ visited_urls # { }
    /\ url_queue # << >>
    /\ FailedUrls # { }
    /\ \E k \in FoundEvents :
          /\ events[k].message.args[1] >= 1
          /\ events[k].message.args[1] < events[k].links_on_current_page

\* the filter's verdict on a URL found on the page at page_url
Accepted(url, page_url) ==
    is_valid_url_table[same_domain_only, url, get_domain_table[page_url]]

\* what C25 says of a state: the seed is in found_links and was the first URL
\* queued, a call that has ended fetched it, it is the first URL fetched, and
\* nothing is visited or queued that was not put into the queue
C25_State ==
    /\ pc # "idle" =>
          /\ start_url \in found_links
          /\ enqueue_log[1] = start_url
          /\ \A i \in 2..Len(enqueue_log) : enqueue_log[i] # start_url
    /\ pc \in { "done", "raised" } => fetch_log # << >>
    /\ fetch_log # << >> => fetch_log[1].url = start_url
    /\ visited_urls \subseteq Range(enqueue_log)
    /\ Range(url_queue) \subseteq Range(enqueue_log)
    /\ found_links \subseteq UrlUniverse

\* what C25 says of a step: the call puts the seed into found_links and
\* url_queue whatever the seed is, and any other URL enters found_links or
\* url_queue in the step of a page on which is_valid_url accepted it
C25_Step ==
    /\ pc = "idle" =>
          /\ found_links' = { start_url' }
          /\ url_queue' = << start_url' >>
    /\ pc # "idle" =>
          \A u \in (found_links' \ found_links)
                     \cup (Range(url_queue') \ Range(url_queue))
                     \cup (Range(enqueue_log') \ Range(enqueue_log)) :
              /\ pc = "fetch"
              /\ u \in AllResolved(Last(scraped_content'))
              /\ Last(scraped_content').url = current_url
              /\ Accepted(u, current_url)

\* C25 (the seed bypasses the filter, everything else passes it): whatever
\* the seed is, it is put into found_links and url_queue and is fetched, the
\* first of all URLs, without is_valid_url being asked; every other URL that
\* enters found_links or url_queue does so in the step of a page on which
\* is_valid_url accepted it against that page's domain, and every visited URL
\* is the seed or such a URL.
C25_SeedBypassesFilter == []C25_State /\ [][C25_Step]_vars

\* the part of C25 the code keeps: all of it for a seed that urlparse accepts,
\* the seeds the filter rejects included
C25_ParsedSeedBypassesFilter ==
    /\ [](start_url \notin MalformedUrls => C25_State)
    /\ [][start_url' \notin MalformedUrls => C25_Step]_vars

\* a call with a seed that urlparse refuses: the seed is in url_queue and not
\* in found_links, nothing was fetched and no event was emitted
C25_MalformedSeedRaised ==
    /\ pc = "raised"
    /\ start_url \in MalformedUrls
    /\ url_queue = << start_url >>
    /\ found_links = { }
    /\ fetch_log = << >>
    /\ events = << >>

\* C25 witness: a finished crawl whose seed the filter rejects, the seed
\* fetched and visited, and other URLs queued from its page
C25_Witness ==
    /\ pc = "done"
    /\ ~Accepted(start_url, start_url)
    /\ fetch_log[1] = [url |-> start_url, result |-> "html"]
    /\ start_url \in visited_urls
    /\ Len(enqueue_log) >= 2
    /\ Cardinality(visited_urls) >= 2

====
